---- MODULE Spec2Model ----
(***************************************************************************)
(* The user service (register, login, forgot/reset/change password,        *)
(* enable/disable, delete) over the account table, the verification-code  *)
(* cache and the clock.                                                    *)
(*                                                                         *)
(* JavaScript strings are sequences of one-character strings, so that     *)
(* .length, the e-mail regular expression, Number.toString() and the      *)
(* cache-key template are computed and not assumed.                       *)
(***************************************************************************)
EXTENDS Integers, Sequences, FiniteSets

(***************************************************************************)
(* Bounds of the model                                                     *)
(***************************************************************************)
\* accounts the auto-increment key hands out in one run
MaxUsers == 2
\* clock advances in one run
MaxTokenTicks == 2
MaxTicks == 1

(***************************************************************************)
(* Program constants                                                       *)
(***************************************************************************)
CODE_EXPIRE_MINUTES == 5
DefaultRoleId == 2

(***************************************************************************)
(* Input samples                                                           *)
(***************************************************************************)
Bob == <<"b", "o", "b">>
Al == <<"a", "l">>
Names == {Bob, Al}

EmailBob == <<"b", "@", "x", ".", "c">>
EmailAl == <<"a", "@", "x", ".", "c">>
BadEmail == <<"b", "x", ".", "c">>
Emails == {EmailBob, EmailAl}
EmailInputs == Emails \cup {BadEmail}

Pw1 == <<"1", "2", "3", "4", "5", "6">>
Pw2 == <<"n", "e", "w", "p", "w", "1", "2">>
PwShort == <<"1", "2", "3", "4", "5">>
Passwords == {Pw1, Pw2}
PasswordInputs == Passwords \cup {PwShort}

NoPhone == <<>>
Phone1 == <<"1", "3", "8">>
Phones == {NoPhone, Phone1}

\* salts bcrypt.genSaltSync may draw
Salts == {"s1", "s2"}

\* values of Math.random(), in millionths: 0 <= r < 1000000; the least and
\* the greatest
RandomValues == {0, 999999}

(***************************************************************************)
(* JavaScript values                                                       *)
(***************************************************************************)
\* a number or a string holding 0 or 1; === compares the type too
Num(n) == [t |-> "number", v |-> n]
StrOf(n) == [t |-> "string", v |-> n]
StrictEq(a, b) == a.t = b.t /\ a.v = b.v

\* a password value: the typed text and the salts of the bcrypt layers
\* around it, innermost first; no layer = plaintext
Plain(p) == [plain |-> p, salts |-> <<>>]

\* String.length of a password value (a bcrypt digest has 60 characters)
StrLen(v) == IF v.salts = <<>> THEN Len(v.plain) ELSE 60

\* bcrypt.hashSync(value, salt)
hashSync(value, salt) == [plain |-> value.plain, salts |-> Append(value.salts, salt)]

\* bcrypt.compareSync(password, hash): recompute with the salt embedded in
\* the digest; false when hash is no digest
compareSync(password, hash) ==
    /\ hash.salts # <<>>
    /\ hashSync(password, hash.salts[Len(hash.salts)]) = hash

\* /^[^\s@]+@[^\s@]+\.[^\s@]+$/.test(s)
IsEmail(s) ==
    \E i, j \in 1..Len(s) :
        /\ 1 < i /\ i + 1 < j /\ j < Len(s)
        /\ s[i] = "@" /\ s[j] = "."
        /\ \A k \in 1..Len(s) : k # i => s[k] \notin {"@", " "}

\* Number.prototype.toString() of a non-negative integer
RECURSIVE NumToString(_)
NumToString(n) ==
    LET d == <<"0", "1", "2", "3", "4", "5", "6", "7", "8", "9">>[(n % 10) + 1]
    IN  IF n < 10 THEN <<d>> ELSE Append(NumToString(n \div 10), d)

\* r as a string of 6 digits, zero-padded
generateVerifyCodePadded(r) ==
    LET digits == NumToString(r)
    IN  [i \in 1..(6 - Len(digits)) |-> "0"] \o digits

\* Math.floor(100000 + Math.random() * 900000).toString(), for Math.random()
\* = r / 1000000: r * 900000 / 1000000 = r * 9 / 10
generateVerifyCode(r) == NumToString(100000 + (r * 9) \div 10)

\* `reset_${user_email}`
CacheKey(email) == <<"r", "e", "s", "e", "t", "_">> \o email

Code000000 == <<"0", "0", "0", "0", "0", "0">>
CodeShort == <<"1", "2", "3", "4", "5">>
IssuedCodes == {generateVerifyCode(r) : r \in RandomValues}
CodeInputs == IssuedCodes \cup {Code000000, CodeShort}

(***************************************************************************)
(* State                                                                   *)
(***************************************************************************)
VARIABLES
    users,            \* rows of table `user`
    nextId,           \* next value of the auto-increment key user_id
    roleUsers,        \* rows of table role_user
    verifyCodeCache,  \* the Map verifyCodeCache: key -> entry
    now,              \* Date.now(), in milliseconds
    ticks,            \* clock advances so far
    last,             \* the call that returned last, and its result
    accepted,         \* per user_id: the plaintext most recently accepted
    issue,            \* per e-mail: what the callers saw of its code
    calls,            \* per caller: its resetPassword call in progress
    rowLock,          \* per user_id: the transaction holding the row lock
    held,             \* the token string a client holds, and who made it
    tokenResult,      \* the result of the last call of src/utils/token.js
    mail              \* the call of sendMail of src/config/mail.js in progress

vars == <<users, nextId, roleUsers, verifyCodeCache, now, ticks, last,
          accepted, issue, calls, rowLock, held, tokenResult, mail>>

UserIds == 1..MaxUsers
NoEntry == [code |-> <<>>, expireTime |-> 0, userId |-> 0]
CacheKeys == {CacheKey(e) : e \in EmailInputs}

\* the record of a call: the operation, its result, and for a password
\* reset the account it changed and the plaintext accepted before it
Idle == [op |-> "idle", res |-> "none", id |-> 0, old |-> <<>>,
         \* what the mail sender reported to the call: "none" when the
         \* call sent no mail
         mail |-> "none"]
MailResult(mailOk) == IF mailOk THEN "sent" ELSE "failed"
Returned(op, res) == [Idle EXCEPT !.op = op, !.res = res]

\* what the callers saw of the code of one e-mail: the code, time and
\* account of the last verification mail handed to the mail sender, the code
\* it replaced, whether a mismatch was reported since, whether a reset has
\* since returned success ("consumed") or CodeExpired ("expired"), and
\* whether the code was presented again after that
NoIssue == [status |-> "none", code |-> <<>>, at |-> 0, uid |-> 0,
            prev |-> <<>>, wrong |-> FALSE, again |-> FALSE]

\* the callers whose resetPassword calls interleave at the awaits, and a
\* call: its position, its arguments, cacheData.userId, its result, and
\* whether a new code was issued after it read the cache
Procs == {"A", "B"}
NoCall == [pc |-> "idle", code |-> <<>>, pw |-> <<>>, userId |-> 0,
           res |-> "none", reissued |-> FALSE,
           \* for changePassword: oldPassword; for both: whether another
           \* call committed a password of the account after this call read
           \* the account and before its own commit
           op |-> "none", old |-> <<>>, stale |-> FALSE]
Unlocked == "none"

Init ==
    /\ mail = [pc |-> "idle", valid |-> TRUE, realSend |-> FALSE,
               production |-> FALSE, initialized |-> FALSE, maxRetry |-> 3,
               retry |-> 0, tried |-> <<>>, result |-> "none",
               retryCount |-> 0]
    /\ held = [token |-> [prefix |-> <<>>,
                          jwt |-> [parts |-> 0, alg |-> "",
                                   payload |-> [k \in {} |-> 0],
                                   sigKey |-> "",
                                   sigOver |-> [k \in {} |-> 0]]],
               origin |-> "none",
               claims |-> [k \in {} |-> 0],
               options |-> [expiresIn |-> {}, issuer |-> {},
                            audience |-> {}],
               issuedAt |-> 0]
    /\ tokenResult = [op |-> "none", ok |-> FALSE, type |-> "",
                      before |-> "", late |-> FALSE,
                      given |-> [k \in {} |-> 0], cause |-> "none",
                      arg |-> "none"]
    /\ calls = [p \in Procs |-> NoCall]
    /\ rowLock = [i \in UserIds |-> Unlocked]
    /\ users = {}
    /\ nextId = 1
    /\ roleUsers = {}
    /\ verifyCodeCache = [k \in CacheKeys |-> NoEntry]
    /\ now = 0
    /\ ticks = 0
    /\ last = Idle
    /\ accepted = [i \in UserIds |-> <<>>]
    /\ issue = [e \in Emails |-> NoIssue]

(***************************************************************************)
(* The model layer: table `user` and its password column                   *)
(***************************************************************************)
\* user_password.set(value): genSaltSync, hashSync, setDataValue
SetPasswordPlain(value, salt) == value
SetPassword(value, salt) == hashSync(value, salt)

\* User.prototype.validatePassword(password)
validatePassword(user, password) == compareSync(password, user.user_password)

\* what column user_status ENUM('0','1') holds and returns for a written
\* value: the string form of it
EnumColumn(value) == StrOf(value.v)

\* User.findByPk(id)
FindByPk(id) == {u \in users : u.user_id = id}

\* instance.update({user_password: v}): the setter runs, the row is saved
UpdatePasswordLost(id, value, salt) == users
UpdatePassword(id, value, salt) ==
    {IF u.user_id = id
        THEN [u EXCEPT !.user_password = SetPassword(value, salt)]
        ELSE u : u \in users}

(***************************************************************************)
(* registerUser(userData)                                                  *)
(***************************************************************************)
RegisterValid(name, pw, email) ==
    /\ name # <<>>
    /\ pw # <<>> /\ Len(pw) >= 6
    /\ email # <<>> /\ IsEmail(email)

\* the row User.findOne({where: {[Op.or]: [{user_name}, {user_email}]}})
\* may return: any matching row (the query states no order)
RegisterExisting(name, email) ==
    {u \in users : u.user_name = name \/ u.user_email = email}

\* the message thrown for the row found
ConflictOf(existingUser, name) ==
    IF existingUser.user_name = name THEN "UsernameExists" ELSE "EmailExists"

\* the results registerUser can return in the current state
RegisterOutcomes(name, pw, email, phone) ==
    IF ~RegisterValid(name, pw, email) THEN {"Validation"}
    ELSE IF RegisterExisting(name, email) # {}
    THEN {ConflictOf(existingUser, name) : existingUser \in RegisterExisting(name, email)}
    \* the unique index on user_phone rejects the INSERT
    ELSE IF \E u \in users : u.user_phone = phone THEN {"UniqueViolation"}
    ELSE {"ok"}

\* `if (!mailResult.success) logger.warn(...)`: the failure of the mail is
\* logged and the result of the call stays what it was
MailFatal(mailOk, res) == IF mailOk THEN res ELSE "MailFailed"
MailLogged(mailOk, res) == res

registerUser(name, pw, email, phone, salt, mailOk) ==
    LET row == [user_id |-> nextId, user_name |-> name,
                user_password |-> SetPassword(Plain(pw), salt),
                user_email |-> email, user_phone |-> phone,
                user_status |-> EnumColumn(Num(1))]
    IN
    \E res \in RegisterOutcomes(name, pw, email, phone) :
        IF res = "ok"
        THEN /\ nextId <= MaxUsers
             /\ users' = users \cup {row}
             /\ nextId' = nextId + 1
             /\ roleUsers' = roleUsers \cup
                    {[user_id |-> nextId, role_id |-> DefaultRoleId]}
             /\ accepted' = [accepted EXCEPT ![nextId] = pw]
             /\ last' = [Returned("registerUser", MailLogged(mailOk, res))
                            EXCEPT !.mail = MailResult(mailOk)]
        ELSE /\ last' = Returned("registerUser", res)
             /\ UNCHANGED <<users, nextId, roleUsers, accepted>>

\* `await t.rollback()` in the catch block: the rows written through the
\* transaction are discarded
RollbackSkipped(before, written) == written
Rollback(before, written) == before

\* the run of registerUser in which RoleUser.create rejects after User.create
\* has inserted the row: the catch block rolls the transaction back; the
\* auto-increment value handed out is not given back
registerUserRolledBack(name, pw, email, phone, salt) ==
    LET row == [user_id |-> nextId, user_name |-> name,
                user_password |-> SetPassword(Plain(pw), salt),
                user_email |-> email, user_phone |-> phone,
                user_status |-> EnumColumn(Num(1))]
    IN
    /\ "ok" \in RegisterOutcomes(name, pw, email, phone)
    /\ nextId <= MaxUsers
    /\ users' = Rollback(users, users \cup {row})
    /\ roleUsers' = roleUsers
    /\ nextId' = nextId + 1
    /\ last' = Returned("registerUser", "RoleBindFailed")
    /\ UNCHANGED accepted

(***************************************************************************)
(* loginUser(user_name, user_password)                                     *)
(***************************************************************************)
LoginMatches(identifier) ==
    {u \in users : u.user_name = identifier \/ u.user_email = identifier}

\* the message thrown when no row matches
NoUserDistinct == "NoSuchUser"
NoUserMessage == "InvalidCredentials"

\* user.user_status === 0
IsDisabled(user) == StrictEq(user.user_status, Num(0))

\* the results loginUser can return in the current state: [res, id]
LoginOutcomes(identifier, pw) ==
    IF identifier = <<>> \/ pw = <<>>
    THEN {[res |-> "Validation", id |-> 0]}
    ELSE IF LoginMatches(identifier) = {}
    THEN {[res |-> NoUserMessage, id |-> 0]}
    ELSE {IF IsDisabled(user)
             THEN [res |-> "AccountDisabled", id |-> 0]
          ELSE IF ~validatePassword(user, Plain(pw))
             THEN [res |-> "InvalidCredentials", id |-> 0]
          ELSE [res |-> "ok", id |-> user.user_id] : user \in LoginMatches(identifier)}

loginUser(identifier, pw) ==
    /\ \E out \in LoginOutcomes(identifier, pw) :
           last' = [Returned("loginUser", out.res) EXCEPT !.id = out.id]
    /\ UNCHANGED <<users, nextId, roleUsers, accepted>>

(***************************************************************************)
(* forgetPassword(user_email)                                              *)
(***************************************************************************)
\* Date.now() + CODE_EXPIRE_MINUTES * 60 * 1000
ExpireTimeSeconds(t) == t + CODE_EXPIRE_MINUTES * 60
ExpireTime(t) == t + CODE_EXPIRE_MINUTES * 60 * 1000

\* verifyCodeCache.set(key, entry)
CacheSetIfAbsent(key, entry) ==
    IF verifyCodeCache[key] = NoEntry
    THEN [verifyCodeCache EXCEPT ![key] = entry]
    ELSE verifyCodeCache
CacheSet(key, entry) == [verifyCodeCache EXCEPT ![key] = entry]

\* User.findOne({where: {user_email}})
FindByEmail(email) == {u \in users : u.user_email = email}

forgetPassword(email, r, mailOk) ==
    IF email = <<>> \/ ~IsEmail(email)
    THEN /\ last' = Returned("forgetPassword", "Validation")
         /\ UNCHANGED verifyCodeCache
    ELSE IF FindByEmail(email) = {}
    THEN /\ last' = Returned("forgetPassword", "ok")
         /\ UNCHANGED verifyCodeCache
    ELSE \E user \in FindByEmail(email) :
            LET verifyCode == generateVerifyCode(r)
                entry == [code |-> verifyCode, expireTime |-> ExpireTime(now),
                          userId |-> user.user_id]
            IN  /\ verifyCodeCache' = CacheSet(CacheKey(email), entry)
                /\ last' = [Returned("forgetPassword",
                                     IF mailOk THEN "ok" ELSE "MailFailed")
                               EXCEPT !.mail = MailResult(mailOk)]

(***************************************************************************)
(* resetPassword(user_email, verifyCode, newPassword)                      *)
(***************************************************************************)
ResetValid(email, code, pw) ==
    /\ email # <<>> /\ IsEmail(email)
    /\ code # <<>> /\ Len(code) = 6
    /\ pw # <<>> /\ Len(pw) >= 6

\* cacheData.expireTime < Date.now()
IsExpiredEarly(cacheData, t) == cacheData.expireTime <= t
IsExpired(cacheData, t) == cacheData.expireTime < t

\* the three tests of the cache entry, in the order of the code
CodeCheck(cacheData, code, t) ==
    IF cacheData = NoEntry THEN "CodeNotFound"
    ELSE IF IsExpired(cacheData, t) THEN "CodeExpired"
    ELSE IF cacheData.code # code THEN "CodeMismatch"
    ELSE "ok"

\* the cache after a failed test: only the expired entry is deleted
CacheAfterCheckBurning(key, outcome) ==
    IF outcome \in {"CodeExpired", "CodeMismatch"}
    THEN [verifyCodeCache EXCEPT ![key] = NoEntry]
    ELSE verifyCodeCache
CacheAfterCheck(key, outcome) ==
    IF outcome = "CodeExpired"
    THEN [verifyCodeCache EXCEPT ![key] = NoEntry]
    ELSE verifyCodeCache

\* verifyCodeCache.delete(cacheKey) after the password update
CacheDeleteSkipped(key) == verifyCodeCache
CacheDelete(key) == [verifyCodeCache EXCEPT ![key] = NoEntry]

\* the result of resetPassword in the current state
ResetOutcome(email, code, pw) ==
    IF ~ResetValid(email, code, pw) THEN "Validation"
    ELSE LET cacheData == verifyCodeCache[CacheKey(email)]
             checked == CodeCheck(cacheData, code, now)
         IN  IF checked # "ok" THEN checked
             ELSE IF FindByPk(cacheData.userId) = {} THEN "UserNotFound"
             ELSE "ok"

resetPassword(email, code, pw, salt, mailOk) ==
    LET res == ResetOutcome(email, code, pw)
        key == CacheKey(email)
        userId == verifyCodeCache[key].userId
    IN
    /\ IF res = "ok"
       THEN /\ users' = UpdatePassword(userId, Plain(pw), salt)
            /\ verifyCodeCache' = CacheDelete(key)
            /\ accepted' = [accepted EXCEPT ![userId] = pw]
            /\ last' = [Returned("resetPassword", MailLogged(mailOk, res))
                           EXCEPT !.id = userId, !.old = accepted[userId],
                                  !.mail = MailResult(mailOk)]
       ELSE /\ verifyCodeCache' = IF ResetValid(email, code, pw)
                                  THEN CacheAfterCheck(key, res)
                                  ELSE verifyCodeCache
            /\ last' = Returned("resetPassword", res)
            /\ UNCHANGED <<users, accepted>>
    /\ UNCHANGED <<nextId, roleUsers>>

(***************************************************************************)
(* changePassword(userId, oldPassword, newPassword)                        *)
(***************************************************************************)
ChangeOutcomeSameAllowed(userId, oldPassword, newPassword) ==
    IF userId = 0 \/ oldPassword = <<>> THEN "Validation"
    ELSE IF newPassword = <<>> \/ Len(newPassword) < 6 THEN "Validation"
    ELSE IF FindByPk(userId) = {} THEN "UserNotFound"
    ELSE IF \E user \in FindByPk(userId) : ~validatePassword(user, Plain(oldPassword))
         THEN "OldPasswordWrong"
    ELSE "ok"
ChangeOutcome(userId, oldPassword, newPassword) ==
    IF userId = 0 \/ oldPassword = <<>> THEN "Validation"
    ELSE IF newPassword = <<>> \/ Len(newPassword) < 6 THEN "Validation"
    ELSE IF oldPassword = newPassword THEN "SamePassword"
    ELSE IF FindByPk(userId) = {} THEN "UserNotFound"
    ELSE IF \E user \in FindByPk(userId) : ~validatePassword(user, Plain(oldPassword))
         THEN "OldPasswordWrong"
    ELSE "ok"

changePassword(userId, oldPassword, newPassword, salt) ==
    LET res == ChangeOutcome(userId, oldPassword, newPassword)
    IN
    /\ last' = Returned("changePassword", res)
    /\ IF res = "ok"
       THEN /\ users' = UpdatePassword(userId, Plain(newPassword), salt)
            /\ accepted' = [accepted EXCEPT ![userId] = newPassword]
       ELSE UNCHANGED <<users, accepted>>
    /\ UNCHANGED <<nextId, roleUsers>>

(***************************************************************************)
(* updateUserInfo(userId, userData)                                        *)
(***************************************************************************)
\* userData: each field is absent ({}) or holds one value
UserDatas ==
    {[user_password |-> ps, user_email |-> es] :
        ps \in {{}, {Pw2}}, es \in {{}, {EmailBob}, {EmailAl}, {BadEmail}}}

\* const { user_password, ...safeData } = userData
SafeDataKeepingPassword(userData) == userData
SafeData(userData) == [userData EXCEPT !.user_password = {}]

\* instance.update(data): the setter of every field present runs
UpdateFields(user, data, salt) ==
    LET withEmail == IF data.user_email = {} THEN user
                     ELSE [user EXCEPT !.user_email = CHOOSE e \in data.user_email : TRUE]
    IN  IF data.user_password = {} THEN withEmail
        ELSE [withEmail EXCEPT !.user_password =
                 SetPassword(Plain(CHOOSE p \in data.user_password : TRUE), salt)]

updateUserInfo(userId, userData, salt) ==
    LET safeData == SafeData(userData)
        badEmail == \E e \in safeData.user_email : e # <<>> /\ ~IsEmail(e)
    IN
    /\ IF userId = 0 \/ badEmail
       THEN /\ last' = Returned("updateUserInfo", "Validation")
            /\ UNCHANGED users
       ELSE IF FindByPk(userId) = {}
       THEN /\ last' = Returned("updateUserInfo", "UserNotFound")
            /\ UNCHANGED users
       ELSE \E user \in FindByPk(userId) :
            LET row == UpdateFields(user, safeData, salt)
            IN  IF \E u \in users \ {user} : u.user_email = row.user_email
                \* the unique index on user_email rejects the UPDATE
                THEN /\ last' = Returned("updateUserInfo", "UniqueViolation")
                     /\ UNCHANGED users
                ELSE /\ last' = Returned("updateUserInfo", "ok")
                     /\ users' = (users \ {user}) \cup {row}
    /\ UNCHANGED <<nextId, roleUsers, accepted>>

(***************************************************************************)
(* toggleUserStatus(userId, status), deleteUser(userId)                    *)
(***************************************************************************)
StatusInputs == {Num(0), Num(1), StrOf(0)}

\* [0, 1].includes(status)
IsStatus(status) == \E n \in {0, 1} : StrictEq(Num(n), status)

toggleUserStatus(userId, status) ==
    /\ IF userId = 0 \/ ~IsStatus(status)
       THEN /\ last' = Returned("toggleUserStatus", "Validation")
            /\ UNCHANGED users
       ELSE IF FindByPk(userId) = {}
       THEN /\ last' = Returned("toggleUserStatus", "UserNotFound")
            /\ UNCHANGED users
       ELSE \E user \in FindByPk(userId) :
               IF StrictEq(user.user_status, status)
               THEN /\ last' = Returned("toggleUserStatus", "AlreadyInStatus")
                    /\ UNCHANGED users
               ELSE /\ last' = Returned("toggleUserStatus", "ok")
                    /\ users' = (users \ {user}) \cup
                                {[user EXCEPT !.user_status = EnumColumn(status)]}
    /\ UNCHANGED <<nextId, roleUsers, accepted>>

\* !value, for a number or a non-empty string
Falsy(value) == value.t = "number" /\ value.v = 0

\* the controller of PUT /api/user/:id/status: validateRequired refuses the
\* fields whose value is falsy, then the service is called ([0, 1].includes
\* is checked by both)
putUserStatus(userId, status) ==
    IF userId = 0 \/ Falsy(status)
    THEN /\ last' = Returned("toggleUserStatus", "Missing")
         /\ UNCHANGED <<users, nextId, roleUsers, accepted>>
    ELSE toggleUserStatus(userId, status)

\* user.destroy(): the model sets no paranoid option, the row is removed
deleteUser(userId) ==
    /\ IF userId = 0
       THEN /\ last' = Returned("deleteUser", "Validation")
            /\ UNCHANGED users
       ELSE IF FindByPk(userId) = {}
       THEN /\ last' = Returned("deleteUser", "UserNotFound")
            /\ UNCHANGED users
       ELSE \E user \in FindByPk(userId) :
               /\ users' = users \ {user}
               /\ last' = Returned("deleteUser", "ok")
    /\ accepted' = IF userId \in UserIds /\ FindByPk(userId) # {}
                   THEN [accepted EXCEPT ![userId] = <<>>] ELSE accepted
    /\ UNCHANGED <<nextId, roleUsers>>

(***************************************************************************)
(* The admin seeding script: createAdminUser(), testLogin()                *)
(***************************************************************************)
\* the account of the script: admin / admin123
AdminUser ==
    [user_name |-> <<"a", "d", "m", "i", "n">>,
     user_password |-> <<"a", "d", "m", "i", "n", "1", "2", "3">>,
     user_email |-> <<"a", "d", "m", "i", "n", "@", "c", ".", "c">>,
     user_phone |-> <<"1", "3", "8", "0">>]

\* what the script hands to User.create as user_password
SeedPassword(salt) == hashSync(Plain(AdminUser.user_password), salt)

\* createAdminUser(): enables the admin account found, or creates it with
\* bcrypt.hash('admin123', 10) as user_password, which the setter of the
\* column hashes; an error of User.create is caught and printed
createAdminUser(scriptSalt, salt) ==
    LET found == {u \in users : u.user_name = AdminUser.user_name}
        row == [user_id |-> nextId, user_name |-> AdminUser.user_name,
                user_password |-> SetPassword(SeedPassword(scriptSalt), salt),
                user_email |-> AdminUser.user_email,
                user_phone |-> AdminUser.user_phone,
                user_status |-> EnumColumn(StrOf(1))]
    IN  /\ IF found # {}
           THEN \E adminUser \in found :
                   IF StrictEq(adminUser.user_status, StrOf(0))
                   THEN /\ users' = (users \ {adminUser}) \cup
                               {[adminUser EXCEPT !.user_status =
                                                      EnumColumn(StrOf(1))]}
                        /\ last' = Returned("createAdminUser", "enabled")
                        /\ UNCHANGED <<nextId, accepted>>
                   ELSE /\ last' = Returned("createAdminUser", "exists")
                        /\ UNCHANGED <<users, nextId, accepted>>
           ELSE IF \E u \in users : \/ u.user_email = AdminUser.user_email
                                    \/ u.user_phone = AdminUser.user_phone
           THEN /\ last' = Returned("createAdminUser", "UniqueViolation")
                /\ UNCHANGED <<users, nextId, accepted>>
           ELSE /\ nextId <= MaxUsers
                /\ users' = users \cup {row}
                /\ nextId' = nextId + 1
                /\ accepted' = [accepted EXCEPT ![nextId] =
                                                  AdminUser.user_password]
                /\ last' = [Returned("createAdminUser", "created")
                               EXCEPT !.id = nextId]
        /\ UNCHANGED roleUsers

(***************************************************************************)
(* The clock                                                               *)
(***************************************************************************)
\* the clock advances by 5 minutes, or by 1 ms more
TickSteps == {5 * 60 * 1000, 5 * 60 * 1000 + 1}

Tick(d) ==
    /\ ticks < MaxTicks
    /\ now' = now + d
    /\ ticks' = ticks + 1
    /\ last' = Idle
    /\ UNCHANGED <<users, nextId, roleUsers, verifyCodeCache, accepted, issue>>

(***************************************************************************)
(* Tokens: src/utils/token.js over the jsonwebtoken library                *)
(***************************************************************************)
\* src/config/jwt.js, with no environment override but the secret
JwtSecret == "JWT_SECRET"
OtherSecret == "another secret"
JwtAlgorithm == "HS256"
JwtIssuer == "cfc_app"
JwtAudience == "cfc_app_users"
\* expiresIn '24h', in seconds
ExpiresInSeconds == 24 * 60 * 60
BEARER_PREFIX == "Bearer "
REFRESH_LEEWAY == 60 * 1000

\* a claims map is a function from claim names to values; numbers under
\* user_id, iat, exp and nbf, strings under the other names
EmptyMap == [k \in {} |-> 0]
Merge(a, b) ==
    [k \in DOMAIN a \cup DOMAIN b |-> IF k \in DOMAIN b THEN b[k] ELSE a[k]]
Without(p, names) == [k \in DOMAIN p \ names |-> p[k]]
Has(p, name) == name \in DOMAIN p

\* Math.floor(Date.now() / 1000)
Seconds(t) == t \div 1000

\* a compact JWT: the number of its dot-separated parts, the header, the
\* payload, and the signature: the key and the content it was made over
Signed(payload, secret, alg) ==
    [parts |-> 3, alg |-> alg, payload |-> payload,
     sigKey |-> secret, sigOver |-> payload]

\* a token string: the 'Bearer ' prefixes in front of it, and the JWT
EmptyString ==
    [prefix |-> <<>>,
     jwt |-> [parts |-> 0, alg |-> "", payload |-> EmptyMap,
              sigKey |-> "", sigOver |-> EmptyMap]]
WithBearer(token) == [token EXCEPT !.prefix = <<BEARER_PREFIX>> \o @]

\* token.startsWith(BEARER_PREFIX) ? token.slice(...).trim() : token.trim()
PureTokenKept(token) == token
PureToken(token) ==
    IF Len(token.prefix) > 0 /\ Head(token.prefix) = BEARER_PREFIX
    THEN [token EXCEPT !.prefix = Tail(@)]
    ELSE token

\* the options of jwt.sign: each option is absent ({}) or holds one value
NoOptions == [expiresIn |-> {}, issuer |-> {}, audience |-> {}]
OptionValue(options, defaults, name) ==
    IF options[name] # {} THEN CHOOSE v \in options[name] : TRUE
    ELSE defaults[name]

\* jwt.sign(payload, secret, options) at clock t: throws when an option
\* and the payload both state a registered claim; iat is the payload's own
\* or the clock; exp, iss and aud come from the options
JwtSign(payload, secret, options, t) ==
    IF \/ Has(payload, "exp") \/ Has(payload, "iss") \/ Has(payload, "aud")
    THEN [thrown |-> TRUE, token |-> EmptyString]
    ELSE LET timestamp == IF Has(payload, "iat") THEN payload["iat"]
                          ELSE Seconds(t)
             claims == Merge(payload,
                           [iat |-> timestamp,
                            exp |-> timestamp + options.expiresIn,
                            iss |-> options.issuer,
                            aud |-> options.audience])
         IN  [thrown |-> FALSE,
              token |-> [prefix |-> <<>>,
                         jwt |-> Signed(claims, secret, options.algorithm)]]

\* generateToken(payload, options) at clock t
generateToken(payload, options, t) ==
    LET defaults == [expiresIn |-> ExpiresInSeconds, issuer |-> JwtIssuer,
                     audience |-> JwtAudience]
        jwtOptions == [expiresIn |-> OptionValue(options, defaults, "expiresIn"),
                       issuer |-> OptionValue(options, defaults, "issuer"),
                       audience |-> OptionValue(options, defaults, "audience"),
                       algorithm |-> JwtAlgorithm]
    IN  JwtSign(payload, JwtSecret, jwtOptions, t)

\* jwt.verify(token, secret, {algorithms, issuer, audience}) at clock t:
\* the error thrown, or "none"; the checks run in the order of the library
JwtVerifyExpiredFirst(token, secret, t) ==
    LET jwt == token.jwt
    IN  IF Len(token.prefix) > 0 \/ jwt.parts # 3
        THEN [name |-> "JsonWebTokenError", message |-> "jwt malformed"]
        ELSE IF Has(jwt.payload, "exp") /\ Seconds(t) >= jwt.payload["exp"]
        THEN [name |-> "TokenExpiredError", message |-> "jwt expired"]
        ELSE IF jwt.alg # JwtAlgorithm
        THEN [name |-> "JsonWebTokenError", message |-> "invalid algorithm"]
        ELSE IF jwt.sigKey # secret \/ jwt.sigOver # jwt.payload
        THEN [name |-> "JsonWebTokenError", message |-> "invalid signature"]
        ELSE [name |-> "none", message |-> ""]
JwtVerify(token, secret, t) ==
    LET jwt == token.jwt
    IN  IF Len(token.prefix) > 0 \/ jwt.parts # 3
        THEN [name |-> "JsonWebTokenError", message |-> "jwt malformed"]
        ELSE IF jwt.alg # JwtAlgorithm
        THEN [name |-> "JsonWebTokenError", message |-> "invalid algorithm"]
        ELSE IF jwt.sigKey # secret \/ jwt.sigOver # jwt.payload
        THEN [name |-> "JsonWebTokenError", message |-> "invalid signature"]
        ELSE IF Has(jwt.payload, "nbf") /\ jwt.payload["nbf"] > Seconds(t)
        THEN [name |-> "NotBeforeError", message |-> "jwt not active"]
        ELSE IF Has(jwt.payload, "exp") /\ Seconds(t) >= jwt.payload["exp"]
        THEN [name |-> "TokenExpiredError", message |-> "jwt expired"]
        ELSE IF ~Has(jwt.payload, "aud") \/ jwt.payload["aud"] # JwtAudience
        THEN [name |-> "JsonWebTokenError",
              message |-> "jwt audience invalid"]
        ELSE IF ~Has(jwt.payload, "iss") \/ jwt.payload["iss"] # JwtIssuer
        THEN [name |-> "JsonWebTokenError", message |-> "jwt issuer invalid"]
        ELSE [name |-> "none", message |-> ""]

\* error.message.includes('signature')
IncludesSignature(message) == message = "invalid signature"

\* the text that ends the message of the expired failure, after the colon:
\* `${error.expiredAt}` and the full-width closing bracket (U+FF09) of the
\* message.  Date.prototype.toString() keeps the seconds and drops the
\* milliseconds
NoDateText == [seconds |-> 0, trailing |-> ""]
DateText(ms) == [seconds |-> ms \div 1000, trailing |-> "U+FF09"]

\* the result of verifyToken: valid and decoded, or error.type and
\* error.message (of the message, the part after '过期时间：')
Valid(decoded) ==
    [valid |-> TRUE, decoded |-> decoded, type |-> "", message |-> "",
     expiredAt |-> NoDateText]
Invalid(type, message, expiredAt) ==
    [valid |-> FALSE, decoded |-> EmptyMap, type |-> type,
     message |-> message, expiredAt |-> expiredAt]

verifyToken(token, t) ==
    IF token = EmptyString
    THEN Invalid("invalid_token", "token must be a non-empty string",
                 NoDateText)
    ELSE LET pureToken == PureToken(token)
             error == JwtVerify(pureToken, JwtSecret, t)
         IN  IF error.name = "none" THEN Valid(pureToken.jwt.payload)
             ELSE IF error.name = "TokenExpiredError"
             THEN Invalid("expired", "Token expired",
                          DateText(pureToken.jwt.payload["exp"] * 1000))
             ELSE IF error.name = "JsonWebTokenError"
             THEN IF IncludesSignature(error.message)
                  THEN Invalid("invalid_signature", "Token signature invalid",
                               NoDateText)
                  ELSE Invalid("invalid_token", error.message, NoDateText)
             ELSE IF error.name = "NotBeforeError"
             THEN Invalid("not_active", "Token not active", NoDateText)
             ELSE Invalid("other", error.message, NoDateText)

\* new Date(text) for the text cut out of the message: the milliseconds, or
\* NaN.  The text is not in a format Date.parse must accept, and what
\* follows the date in it is for the engine to accept or refuse: both
\* results are possible
DateParse(text) ==
    IF text.trailing = "" THEN {[nan |-> FALSE, ms |-> text.seconds * 1000]}
    ELSE {[nan |-> TRUE, ms |-> 0],
          [nan |-> FALSE, ms |-> text.seconds * 1000]}

\* new Date() > leewayEnd: false when leewayEnd is an invalid date
LeewayNone(t, expiredAt) == ~expiredAt.nan /\ t > expiredAt.ms
LeewayPassed(t, expiredAt) ==
    ~expiredAt.nan /\ t > expiredAt.ms + REFRESH_LEEWAY

\* jwt.decode(pureToken): the payload, or null
JwtDecode(token) ==
    IF Len(token.prefix) > 0 \/ token.jwt.parts # 3 THEN {}
    ELSE {token.jwt.payload}

RegisteredNames == {"iat", "exp", "iss", "aud"}

\* the results of refreshToken
Refreshed(newToken) == [success |-> TRUE, newToken |-> newToken, type |-> ""]
NotRefreshed(type) ==
    [success |-> FALSE, newToken |-> EmptyString, type |-> type]

\* steps 3 to 5 of refreshToken: decode, merge, strip, generate
RefreshIssue(oldToken, newPayload, t) ==
    LET decoded == JwtDecode(PureToken(oldToken))
    IN  IF decoded = {} THEN NotRefreshed("decode_failed")
        ELSE LET oldPayload == CHOOSE p \in decoded : TRUE
                 finalPayload == Without(Merge(oldPayload, newPayload),
                                         RegisteredNames)
                 generated == generateToken(finalPayload, NoOptions, t)
             IN  IF generated.thrown THEN NotRefreshed("generate_failed")
                 ELSE Refreshed(generated.token)

\* the results refreshToken(oldToken, newPayload) can return at clock t
RefreshOutcomes(oldToken, newPayload, t) ==
    LET verifyResult == verifyToken(oldToken, t)
    IN  IF verifyResult.valid THEN {RefreshIssue(oldToken, newPayload, t)}
        ELSE IF verifyResult.type # "expired"
        THEN {NotRefreshed(verifyResult.type)}
        ELSE {IF LeewayPassed(t, expiredAt)
              THEN NotRefreshed("refresh_expired")
              ELSE RefreshIssue(oldToken, newPayload, t) :
                  expiredAt \in DateParse(verifyResult.expiredAt)}

(***************************************************************************)
(* SpecTokens: a client holding one token string                           *)
(***************************************************************************)
\* the token string, who made it ("service", "refresh", or the kind of
\* forgery), and for a token of generateToken the claims map and options
\* it was called with and the clock of the call
NoHeld ==
    [token |-> EmptyString, origin |-> "none", claims |-> EmptyMap,
     options |-> NoOptions, issuedAt |-> 0]
\* the result of a call: valid or success, and error.type; of a
\* generateToken call the kind of its payload argument and, for an object,
\* its claims; of a refreshToken
\* call also what it was called with: the newPayload, the verification
\* result of the old token, and whether its expiry was more than
\* REFRESH_LEEWAY ago; of a verifyToken call the one check of jwt.verify
\* the token was made to fail
TokenResult(op, ok, type) ==
    [op |-> op, ok |-> ok, type |-> type, before |-> "", late |-> FALSE,
     given |-> EmptyMap, cause |-> "none", arg |-> "none"]

AccountVars ==
    <<users, nextId, roleUsers, verifyCodeCache, last, accepted, issue,
      calls, rowLock, mail>>

\* claims maps and options the callers pass
ClaimMaps ==
    {[user_id |-> 1], [user_id |-> 2, role |-> "admin"],
     [user_id |-> 1, exp |-> 0], [user_id |-> 1, iss |-> "me"],
     [user_id |-> 1, iat |-> 1], [user_id |-> 1, nbf |-> 2 * ExpiresInSeconds]}
NewClaimMaps == {EmptyMap, [role |-> "guest"]}
OptionSets ==
    {NoOptions, [NoOptions EXCEPT !.issuer = {"other_app"}],
     [NoOptions EXCEPT !.audience = {"other_users"}]}

\* the clock advances
TokenTickSteps ==
    {REFRESH_LEEWAY, REFRESH_LEEWAY + 1000,
     ExpiresInSeconds * 1000 - 1, ExpiresInSeconds * 1000}

TokTick ==
    \E d \in TokenTickSteps :
        /\ ticks < MaxTokenTicks
        /\ now' = now + d
        /\ ticks' = ticks + 1
        /\ UNCHANGED <<held, tokenResult, mail>>
        /\ UNCHANGED AccountVars

\* what a caller passes as payload: null, a string, an array, or an
\* object with its claims
PayloadArgs ==
    {[kind |-> k, map |-> EmptyMap] : k \in {"null", "string", "array"}}
        \cup {[kind |-> "object", map |-> m] : m \in ClaimMaps \cup {EmptyMap}}

\* !payload || typeof payload !== 'object' || Array.isArray(payload): an
\* object, empty or not, is truthy
PayloadRejected(arg) == arg.kind # "object"

\* generateToken(payload, options) is called and the token handed out
TokGenerate ==
    \E arg \in PayloadArgs, options \in OptionSets :
        LET payload == arg.map
            generated == generateToken(payload, options, now)
            thrown == PayloadRejected(arg) \/ generated.thrown
        IN  /\ options # NoOptions => arg = [kind |-> "object",
                                             map |-> [user_id |-> 1]]
            /\ tokenResult' = [TokenResult("generateToken", ~thrown, "")
                                 EXCEPT !.arg = arg.kind, !.given = payload]
            /\ held' = IF thrown THEN held
                       ELSE [token |-> generated.token, origin |-> "service",
                             claims |-> payload, options |-> options,
                             issuedAt |-> now]
            /\ UNCHANGED <<now, ticks>>
            /\ UNCHANGED AccountVars

\* the client puts 'Bearer ' in front of the token
TokBearer ==
    /\ held.token # EmptyString
    /\ Len(held.token.prefix) = 0
    /\ held' = [held EXCEPT !.token = WithBearer(@)]
    /\ UNCHANGED <<tokenResult, now, ticks>>
    /\ UNCHANGED AccountVars

\* someone without the secret makes a token out of the one held: signs the
\* claims with another secret, alters the payload under the signature, or
\* cuts the string
TokForge ==
    /\ held.origin \in {"service", "refresh"}
    /\ LET jwt == held.token.jwt
       IN  \/ held' = [held EXCEPT !.token.jwt =
                                      Signed(jwt.payload, OtherSecret, jwt.alg),
                                  !.origin = "otherSecret"]
           \/ \E change \in {[user_id |-> 3],
                             [exp |-> jwt.payload["exp"] + ExpiresInSeconds]} :
                  held' = [held EXCEPT !.token.jwt.payload =
                                           Merge(jwt.payload, change),
                                       !.origin = "tampered"]
           \/ held' = [held EXCEPT !.token.jwt.parts = 2,
                                   !.origin = "malformed"]
    /\ UNCHANGED <<tokenResult, now, ticks>>
    /\ UNCHANGED AccountVars

\* the one check of jwt.verify that the token h fails at clock t by the way
\* it was made: "malformed", "signature", "expiry", "audience", "issuer";
\* "none" for a token made to pass, "several" otherwise
Cause(h, t) ==
    LET payload == h.token.jwt.payload
        expired == Seconds(t) >= payload["exp"]
    IN  IF h.origin = "none" \/ Has(h.claims, "nbf") THEN "several"
        ELSE IF h.origin = "malformed" THEN "malformed"
        ELSE IF h.origin \in {"otherSecret", "tampered"} THEN "signature"
        ELSE IF h.options = NoOptions
        THEN IF expired THEN "expiry" ELSE "none"
        ELSE IF expired THEN "several"
        ELSE IF h.options.audience # {} THEN "audience"
        ELSE "issuer"

\* verifyToken(token) is called on the token held
TokVerify ==
    /\ LET result == verifyToken(held.token, now)
       IN  tokenResult' =
               [TokenResult("verifyToken", result.valid, result.type)
                  EXCEPT !.cause = Cause(held, now)]
    /\ UNCHANGED <<held, now, ticks>>
    /\ UNCHANGED AccountVars

\* the expiry of the token is more than REFRESH_LEEWAY before clock t
PastLeeway(token, t) ==
    /\ Has(PureToken(token).jwt.payload, "exp")
    /\ t > PureToken(token).jwt.payload["exp"] * 1000 + REFRESH_LEEWAY

\* refreshToken(oldToken, newPayload) is called on the token held, and the
\* client keeps the new token
TokRefresh ==
    \E newPayload \in NewClaimMaps :
        \E result \in RefreshOutcomes(held.token, newPayload, now) :
            /\ tokenResult' =
                   [TokenResult("refreshToken", result.success, result.type)
                      EXCEPT !.before = verifyToken(held.token, now).type,
                             !.late = PastLeeway(held.token, now),
                             !.given = newPayload]
            /\ held' = IF result.success
                       THEN [NoHeld EXCEPT !.token = result.newToken,
                                           !.origin = "refresh"]
                       ELSE held
            /\ UNCHANGED <<now, ticks>>
            /\ UNCHANGED AccountVars

NextTokens ==
    TokTick \/ TokGenerate \/ TokBearer \/ TokForge \/ TokVerify \/ TokRefresh

SpecTokens == Init /\ [][NextTokens]_vars

(***************************************************************************)
(* What the callers of forgetPassword and resetPassword have seen          *)
(***************************************************************************)
\* after forgetPassword(email): a verification mail, when one was handed to
\* the mail sender
ForgetSeen(email, r) ==
    IF email \notin Emails \/ FindByEmail(email) = {} THEN issue
    ELSE [issue EXCEPT ![email] =
            [status |-> "issued", code |-> generateVerifyCode(r), at |-> now,
             uid |-> (CHOOSE u \in FindByEmail(email) : TRUE).user_id,
             prev |-> IF issue[email].status = "issued"
                      THEN issue[email].code ELSE <<>>,
             wrong |-> FALSE, again |-> FALSE]]

\* after resetPassword(email, code, ...) returned res
ResetSeen(email, code, res) ==
    IF email \notin Emails THEN issue
    ELSE IF res = "ok"
         THEN [issue EXCEPT ![email].status = "consumed", ![email].at = 0,
                            ![email].prev = <<>>]
    ELSE IF res = "CodeExpired"
         THEN [issue EXCEPT ![email].status = "expired", ![email].at = 0,
                            ![email].prev = <<>>, ![email].wrong = FALSE]
    ELSE IF res = "CodeMismatch"
         THEN [issue EXCEPT ![email].wrong = TRUE]
    ELSE IF /\ res = "CodeNotFound" /\ code = issue[email].code
            /\ issue[email].status \in {"consumed", "expired"}
         THEN [issue EXCEPT ![email].again = TRUE]
    ELSE issue

(***************************************************************************)
(* Spec: the password recovery flow of one e-mail, one call at a time      *)
(***************************************************************************)
IdInputs == 0..MaxUsers

\* the registrations of the flow: valid input
FlowAccounts ==
    {[user_name |-> Bob, user_email |-> EmailBob, user_phone |-> NoPhone],
     [user_name |-> Al, user_email |-> EmailAl, user_phone |-> Phone1],
     [user_name |-> Al, user_email |-> EmailBob, user_phone |-> Phone1]}
FlowEmails == {EmailBob, BadEmail}

Register ==
    \E a \in FlowAccounts :
        /\ registerUser(a.user_name, Pw1, a.user_email, a.user_phone, "s1",
                        TRUE)
        /\ UNCHANGED <<verifyCodeCache, issue, now, ticks, calls, rowLock, held,
                   tokenResult, mail>>

Forget ==
    \E email \in FlowEmails, r \in RandomValues, mailOk \in BOOLEAN :
        /\ forgetPassword(email, r, mailOk)
        /\ issue' = ForgetSeen(email, r)
        /\ UNCHANGED <<users, nextId, roleUsers, accepted, now, ticks, calls, rowLock, held,
                   tokenResult, mail>>

Reset ==
    \E email \in FlowEmails, code \in CodeInputs, pw \in PasswordInputs :
        /\ resetPassword(email, code, pw, "s1", TRUE)
        /\ issue' = ResetSeen(email, code, ResetOutcome(email, code, pw))
        /\ UNCHANGED <<now, ticks, calls, rowLock, held,
                   tokenResult, mail>>

Delete ==
    \E userId \in IdInputs :
        /\ deleteUser(userId)
        /\ UNCHANGED <<verifyCodeCache, issue, now, ticks, calls, rowLock, held,
                   tokenResult, mail>>

Advance ==
    (\E d \in TickSteps : Tick(d))
        /\ UNCHANGED <<calls, rowLock, held, tokenResult, mail>>

Next == Register \/ Forget \/ Reset \/ Delete \/ Advance

Spec == Init /\ [][Next]_vars

(***************************************************************************)
(* SpecAccounts: the account operations, one call at a time, clock stopped *)
(***************************************************************************)
LoginNames == Names \cup Emails

AcctRegister ==
    /\ \/ \E name \in Names, email \in EmailInputs, phone \in Phones :
              \/ \E mailOk \in BOOLEAN :
                     registerUser(name, Pw1, email, phone, "s1", mailOk)
              \/ registerUserRolledBack(name, Pw1, email, phone, "s1")
       \/ registerUser(Bob, PwShort, EmailBob, NoPhone, "s1", TRUE)
    /\ UNCHANGED <<verifyCodeCache, issue, now, ticks, calls, rowLock, held,
                   tokenResult, mail>>

AcctLogin ==
    \E identifier \in LoginNames, pw \in PasswordInputs :
        /\ loginUser(identifier, pw)
        /\ UNCHANGED <<verifyCodeCache, issue, now, ticks, calls, rowLock, held,
                   tokenResult, mail>>

AcctForget ==
    /\ \E mailOk \in BOOLEAN : forgetPassword(EmailBob, 0, mailOk)
    /\ UNCHANGED <<users, nextId, roleUsers, accepted, issue, now, ticks, calls, rowLock, held,
                   tokenResult, mail>>

AcctReset ==
    \E code \in {generateVerifyCode(0), Code000000}, pw \in Passwords,
       mailOk \in BOOLEAN :
        /\ resetPassword(EmailBob, code, pw, "s2", mailOk)
        /\ UNCHANGED <<issue, now, ticks, calls, rowLock, held,
                   tokenResult, mail>>

AcctChange ==
    \E userId \in IdInputs, oldPassword \in Passwords,
       newPassword \in PasswordInputs :
        /\ changePassword(userId, oldPassword, newPassword, "s1")
        /\ UNCHANGED <<verifyCodeCache, issue, now, ticks, calls, rowLock, held,
                   tokenResult, mail>>

AcctUpdate ==
    \E userId \in IdInputs, userData \in UserDatas :
        /\ updateUserInfo(userId, userData, "s1")
        /\ UNCHANGED <<verifyCodeCache, issue, now, ticks, calls, rowLock, held,
                   tokenResult, mail>>

AcctToggle ==
    \E userId \in IdInputs, status \in StatusInputs :
        /\ toggleUserStatus(userId, status)
        /\ UNCHANGED <<verifyCodeCache, issue, now, ticks, calls, rowLock, held,
                   tokenResult, mail>>

\* a request to the status endpoint
PutStatus(userId, status) ==
    /\ putUserStatus(userId, status)
    /\ UNCHANGED <<verifyCodeCache, issue, now, ticks, calls, rowLock, held,
                   tokenResult, mail>>
AcctPutStatus ==
    \E userId \in IdInputs, status \in StatusInputs : PutStatus(userId, status)

\* deleteUser without an id, and of the account created last
AcctDelete ==
    \E userId \in {0, MaxUsers} :
        /\ deleteUser(userId)
        /\ UNCHANGED <<verifyCodeCache, issue, now, ticks, calls, rowLock, held,
                   tokenResult, mail>>

NextAccounts ==
    \/ AcctRegister \/ AcctLogin \/ AcctForget \/ AcctReset \/ AcctChange
    \/ AcctUpdate \/ AcctToggle \/ AcctDelete \/ AcctPutStatus

SpecAccounts == Init /\ [][NextAccounts]_vars

(***************************************************************************)
(* SpecMail: sendMail(mailOptions, retryCount = 0) of src/config/mail.js   *)
(***************************************************************************)
\* DEFAULT_MAIL_CONFIG.MAX_RETRY
MAX_RETRY == 3

\* MAIL_MAX_RETRY as parseInt gives it, and what validateMailConfig makes
\* of it
MaxRetryInputs == {0, 1, MAX_RETRY}
ValidMaxRetry(maxRetry) == IF maxRetry < 1 THEN 1 ELSE maxRetry

\* currentRetry < mailConfig.maxRetry
ShouldRetryOnceMore(currentRetry, maxRetry) == currentRetry <= maxRetry
ShouldRetry(currentRetry, maxRetry) == currentRetry < maxRetry

OthersUnchanged ==
    UNCHANGED <<users, nextId, roleUsers, verifyCodeCache, now, ticks, last,
                accepted, issue, calls, rowLock, held, tokenResult>>

\* a caller calls sendMail: with or without recipient and subject, with
\* MAIL_REAL_SEND and NODE_ENV set or not; the transporter was initialised
\* when the service started, or is not yet.  Steps 1 and 2 of sendMail
MailCall ==
    \E valid \in BOOLEAN, realSendEnv \in BOOLEAN, production \in BOOLEAN,
       maxRetry \in MaxRetryInputs :
        LET realSend == realSendEnv \/ production
            call == [mail EXCEPT !.valid = valid, !.realSend = realSend,
                                 !.production = production,
                                 !.maxRetry = IF mail.initialized
                                              THEN ValidMaxRetry(maxRetry)
                                              ELSE maxRetry,
                                 !.retry = 0, !.tried = <<>>,
                                 !.result = "none", !.retryCount = 0]
        IN  /\ mail.pc = "idle"
            /\ mail' = IF ~valid
                       THEN [call EXCEPT !.pc = "done",
                                         !.result = "invalid_params"]
                       ELSE IF ~realSend
                       THEN [call EXCEPT !.pc = "done", !.result = "sent"]
                       ELSE [call EXCEPT !.pc = "attempt"]
            /\ OthersUnchanged

\* one pass through the try block: initMailTransporter() (validates the
\* configuration and connects, when not done yet; a failed connection ends
\* the process in production and throws otherwise), then
\* transporter.sendMail(); the catch block retries or gives up
MailAttempt ==
    \E outcome \in {"connect", "send", "ok"} :
        LET maxRetry == IF mail.initialized THEN mail.maxRetry
                        ELSE ValidMaxRetry(mail.maxRetry)
            tried == [mail EXCEPT !.tried = Append(@, outcome),
                                  !.maxRetry = maxRetry,
                                  !.initialized = @ \/ outcome # "connect"]
        IN  /\ mail.pc = "attempt"
            /\ outcome = "connect" => ~mail.initialized
            /\ mail' =
                   IF outcome = "ok"
                   THEN [tried EXCEPT !.pc = "done", !.result = "sent",
                                      !.retryCount = mail.retry]
                   ELSE IF outcome = "connect" /\ mail.production
                   THEN [tried EXCEPT !.pc = "exited"]
                   ELSE IF ShouldRetry(mail.retry, maxRetry)
                   THEN [tried EXCEPT !.pc = "wait", !.retry = @ + 1]
                   ELSE [tried EXCEPT !.pc = "done",
                                      !.result = "send_failed",
                                      !.retryCount = mail.retry]
            /\ OthersUnchanged

\* the retry interval has passed: return sendMail(mailOptions, nextRetry)
MailRetry ==
    /\ mail.pc = "wait"
    /\ mail' = [mail EXCEPT !.pc = "attempt"]
    /\ OthersUnchanged

\* the caller has the result
MailReturn ==
    /\ mail.pc = "done"
    /\ mail' = [mail EXCEPT !.pc = "idle"]
    /\ OthersUnchanged

NextMail == MailCall \/ MailAttempt \/ MailRetry \/ MailReturn

\* every attempt ends (the transporter has connection, greeting and socket
\* timeouts) and every timer fires
SpecMail ==
    Init /\ [][NextMail]_vars /\ WF_vars(MailAttempt) /\ WF_vars(MailRetry)

(***************************************************************************)
(* SpecSeed: the seeding script run against the accounts                   *)
(***************************************************************************)
SeedUnchanged ==
    UNCHANGED <<verifyCodeCache, issue, now, ticks, calls, rowLock, held,
                tokenResult, mail>>

CreateAdmin ==
    \E scriptSalt \in Salts, salt \in Salts :
        createAdminUser(scriptSalt, salt) /\ SeedUnchanged

\* testLogin(): POST /api/users/login with admin / admin123
TestLogin ==
    loginUser(AdminUser.user_name, AdminUser.user_password) /\ SeedUnchanged

\* the service calls that make and change accounts before the script runs
SeedRegister ==
    \E name \in {AdminUser.user_name, Bob},
       pw \in {AdminUser.user_password, Pw1} :
        registerUser(name, pw, IF name = Bob THEN EmailBob
                               ELSE AdminUser.user_email,
                     IF name = Bob THEN Phone1 ELSE AdminUser.user_phone,
                     "s1", TRUE)
            /\ SeedUnchanged
SeedLogin ==
    \E identifier \in {AdminUser.user_email, Bob}, pw \in {Pw1, Pw2} :
        loginUser(identifier, pw) /\ SeedUnchanged
SeedToggle ==
    \E userId \in UserIds, status \in {Num(0), Num(1)} :
        toggleUserStatus(userId, status) /\ SeedUnchanged
SeedDelete == \E userId \in UserIds : deleteUser(userId) /\ SeedUnchanged

NextSeed ==
    CreateAdmin \/ TestLogin \/ SeedRegister \/ SeedLogin \/ SeedToggle
        \/ SeedDelete

SpecSeed == Init /\ [][NextSeed]_vars

(***************************************************************************)
(* SpecConc: two resetPassword calls for one e-mail, interleaved at the    *)
(* awaits of the handler; the clock is stopped                             *)
(***************************************************************************)
ConcEmail == EmailBob
ConcCodes == IssuedCodes \cup {Code000000}

\* a call has read the row of the account and has not committed yet
HasRead(c) == c.pc \in {"update", "updated", "commit"}

\* the calls after the commit of p: p has returned success, and the calls
\* that read the same account before this commit hold a stale row
Committed(p) ==
    [q \in Procs |->
        IF q = p THEN [calls[p] EXCEPT !.pc = "done", !.res = "ok"]
        ELSE IF HasRead(calls[q]) /\ calls[q].userId = calls[p].userId
             THEN [calls[q] EXCEPT !.stale = TRUE]
        ELSE calls[q]]

\* resetPassword is called: `await sequelize.transaction()`
ResetBegin(p, code, pw) ==
    /\ calls[p].pc = "idle"
    /\ calls' = [calls EXCEPT ![p] = [NoCall EXCEPT !.pc = "validate",
                                                     !.op = "resetPassword",
                                                     !.code = code, !.pw = pw]]
    /\ UNCHANGED <<users, nextId, roleUsers, verifyCodeCache, now, ticks,
                   last, accepted, issue, rowLock>>

\* steps 1 and 2, one synchronous block: the input validation and the
\* check of the code against the cache, up to `await User.findByPk`
ResetCheck(p) ==
    /\ calls[p].pc = "validate" /\ calls[p].op = "resetPassword"
    /\ LET key == CacheKey(ConcEmail)
           cacheData == verifyCodeCache[key]
           outcome == IF ~ResetValid(ConcEmail, calls[p].code, calls[p].pw)
                      THEN "Validation"
                      ELSE CodeCheck(cacheData, calls[p].code, now)
       IN  /\ verifyCodeCache' = CacheAfterCheck(key, outcome)
           /\ calls' = [calls EXCEPT ![p] =
                  IF outcome = "ok"
                  THEN [@ EXCEPT !.pc = "findByPk",
                                 !.userId = cacheData.userId]
                  ELSE [@ EXCEPT !.pc = "rollback", !.res = outcome]]
    /\ UNCHANGED <<users, nextId, roleUsers, now, ticks, last, accepted,
                   issue, rowLock>>

\* `User.findByPk(cacheData.userId)` resolves
ResetFind(p) ==
    /\ calls[p].pc = "findByPk" /\ calls[p].op = "resetPassword"
    /\ calls' = [calls EXCEPT ![p] =
           IF FindByPk(calls[p].userId) = {}
           THEN [@ EXCEPT !.pc = "rollback", !.res = "UserNotFound"]
           ELSE [@ EXCEPT !.pc = "update"]]
    /\ UNCHANGED <<users, nextId, roleUsers, verifyCodeCache, now, ticks,
                   last, accepted, issue, rowLock>>

\* the database runs the UPDATE of `user.update` in the transaction of the
\* call: it waits for the lock of the row, and holds it until the commit
ResetUpdate(p) ==
    /\ calls[p].pc = "update" /\ calls[p].op = "resetPassword"
    /\ rowLock[calls[p].userId] = Unlocked
    /\ rowLock' = [rowLock EXCEPT ![calls[p].userId] = p]
    /\ calls' = [calls EXCEPT ![p].pc = "updated"]
    /\ UNCHANGED <<users, nextId, roleUsers, verifyCodeCache, now, ticks,
                   last, accepted, issue>>

\* step 4, after `await user.update`: `verifyCodeCache.delete(cacheKey)`,
\* then `t.commit()` is requested
ResetDeleteCode(p) ==
    /\ calls[p].pc = "updated"
    /\ verifyCodeCache' = CacheDelete(CacheKey(ConcEmail))
    /\ calls' = [calls EXCEPT ![p].pc = "commit"]
    /\ UNCHANGED <<users, nextId, roleUsers, now, ticks, last, accepted,
                   issue, rowLock>>

\* `t.commit()` resolves: the new password is stored, the lock is released
\* and the call returns success (the result of the mail is only logged)
ResetCommit(p, salt) ==
    /\ calls[p].pc = "commit" /\ calls[p].op = "resetPassword"
    /\ users' = UpdatePassword(calls[p].userId, Plain(calls[p].pw), salt)
    /\ rowLock' = [rowLock EXCEPT ![calls[p].userId] = Unlocked]
    /\ accepted' = [accepted EXCEPT ![calls[p].userId] = calls[p].pw]
    /\ calls' = Committed(p)
    /\ last' = [Returned("resetPassword", "ok") EXCEPT
                   !.id = calls[p].userId,
                   !.old = accepted[calls[p].userId]]
    /\ UNCHANGED <<nextId, roleUsers, verifyCodeCache, now, ticks, issue>>

\* `t.commit()` rejects (the connection is lost, the database refuses):
\* the transaction is not applied, the catch block rolls back and throws
ResetCommitFails(p) ==
    /\ calls[p].pc = "commit" /\ calls[p].op = "resetPassword"
    /\ rowLock' = [rowLock EXCEPT ![calls[p].userId] = Unlocked]
    /\ calls' = [calls EXCEPT ![p].pc = "done", ![p].res = "CommitFailed"]
    /\ last' = Returned("resetPassword", "CommitFailed")
    /\ UNCHANGED <<users, nextId, roleUsers, verifyCodeCache, now, ticks,
                   accepted, issue>>

\* the catch block: `await t.rollback()`, then the error is thrown again
ResetRollback(p) ==
    /\ calls[p].pc = "rollback"
    /\ calls' = [calls EXCEPT ![p].pc = "done"]
    /\ last' = Returned(calls[p].op, calls[p].res)
    /\ UNCHANGED <<users, nextId, roleUsers, verifyCodeCache, now, ticks,
                   accepted, issue, rowLock>>

\* a call has read the cache
HasChecked(c) == c.op = "resetPassword" /\ c.pc \notin {"idle", "validate"}

\* changePassword is called: `await sequelize.transaction()`
ChangeBegin(p, userId, oldPassword, newPassword) ==
    /\ calls[p].pc = "idle"
    /\ calls' = [calls EXCEPT ![p] =
           [NoCall EXCEPT !.pc = "validate", !.op = "changePassword",
                          !.userId = userId, !.old = oldPassword,
                          !.pw = newPassword]]
    /\ UNCHANGED <<users, nextId, roleUsers, verifyCodeCache, now, ticks,
                   last, accepted, issue, rowLock>>

\* step 1 of changePassword: the validation of the arguments
ChangeValidation(userId, oldPassword, newPassword) ==
    IF userId = 0 \/ oldPassword = <<>> THEN "Validation"
    ELSE IF newPassword = <<>> \/ Len(newPassword) < 6 THEN "Validation"
    ELSE IF oldPassword = newPassword THEN "SamePassword"
    ELSE "ok"

ChangeCheck(p) ==
    /\ calls[p].pc = "validate" /\ calls[p].op = "changePassword"
    /\ LET outcome == ChangeValidation(calls[p].userId, calls[p].old,
                                       calls[p].pw)
       IN  calls' = [calls EXCEPT ![p] =
               IF outcome = "ok" THEN [@ EXCEPT !.pc = "findByPk"]
               ELSE [@ EXCEPT !.pc = "rollback", !.res = outcome]]
    /\ UNCHANGED <<users, nextId, roleUsers, verifyCodeCache, now, ticks,
                   last, accepted, issue, rowLock>>

\* step 2 of changePassword: `User.findByPk(userId)` resolves and the old
\* password is verified against the row read
ChangeFind(p) ==
    /\ calls[p].pc = "findByPk" /\ calls[p].op = "changePassword"
    /\ calls' = [calls EXCEPT ![p] =
           IF FindByPk(calls[p].userId) = {}
           THEN [@ EXCEPT !.pc = "rollback", !.res = "UserNotFound"]
           ELSE IF \E user \in FindByPk(calls[p].userId) :
                      ~validatePassword(user, Plain(calls[p].old))
           THEN [@ EXCEPT !.pc = "rollback", !.res = "OldPasswordWrong"]
           ELSE [@ EXCEPT !.pc = "update"]]
    /\ UNCHANGED <<users, nextId, roleUsers, verifyCodeCache, now, ticks,
                   last, accepted, issue, rowLock>>

\* step 3 of changePassword: the database runs the UPDATE, waiting for the
\* lock of the row; `t.commit()` is requested when `user.update` resolves
ChangeUpdate(p) ==
    /\ calls[p].pc = "update" /\ calls[p].op = "changePassword"
    /\ rowLock[calls[p].userId] = Unlocked
    /\ rowLock' = [rowLock EXCEPT ![calls[p].userId] = p]
    /\ calls' = [calls EXCEPT ![p].pc = "commit"]
    /\ UNCHANGED <<users, nextId, roleUsers, verifyCodeCache, now, ticks,
                   last, accepted, issue>>

\* `t.commit()` of changePassword resolves: the new password is stored, the
\* lock is released and the call returns success
ChangeCommit(p, salt) ==
    /\ calls[p].pc = "commit" /\ calls[p].op = "changePassword"
    /\ users' = UpdatePassword(calls[p].userId, Plain(calls[p].pw), salt)
    /\ rowLock' = [rowLock EXCEPT ![calls[p].userId] = Unlocked]
    /\ accepted' = [accepted EXCEPT ![calls[p].userId] = calls[p].pw]
    /\ calls' = Committed(p)
    /\ last' = Returned("changePassword", "ok")
    /\ UNCHANGED <<nextId, roleUsers, verifyCodeCache, now, ticks, issue>>

ConcRegister ==
    /\ registerUser(Bob, Pw1, ConcEmail, NoPhone, "s1", TRUE)
    /\ UNCHANGED <<verifyCodeCache, issue, now, ticks, calls, rowLock, held,
                   tokenResult, mail>>

\* forgetPassword issues a code; the calls that read the cache before it
\* have read an earlier code
ConcForget ==
    \E r \in RandomValues :
        /\ forgetPassword(ConcEmail, r, TRUE)
        /\ calls' = [p \in Procs |->
               IF HasChecked(calls[p]) /\ FindByEmail(ConcEmail) # {}
               THEN [calls[p] EXCEPT !.reissued = TRUE] ELSE calls[p]]
        /\ UNCHANGED <<users, nextId, roleUsers, accepted, issue, now,
                       ticks, rowLock, held, tokenResult, mail>>

ConcBegin ==
    /\ UNCHANGED <<held, tokenResult, mail>>
    /\ \E p \in Procs, code \in ConcCodes, pw \in Passwords :
        ResetBegin(p, code, pw)
ConcCheck ==
    /\ UNCHANGED <<held, tokenResult, mail>>
    /\ \E p \in Procs : ResetCheck(p)
ConcFind ==
    /\ UNCHANGED <<held, tokenResult, mail>>
    /\ \E p \in Procs : ResetFind(p)
ConcUpdate ==
    /\ UNCHANGED <<held, tokenResult, mail>>
    /\ \E p \in Procs : ResetUpdate(p)
ConcDeleteCode ==
    /\ UNCHANGED <<held, tokenResult, mail>>
    /\ \E p \in Procs : ResetDeleteCode(p)
ConcCommit ==
    /\ UNCHANGED <<held, tokenResult, mail>>
    /\ \E p \in Procs : ResetCommit(p, "s1")
ConcCommitFails ==
    /\ UNCHANGED <<held, tokenResult, mail>>
    /\ \E p \in Procs : ResetCommitFails(p)
ConcRollback ==
    /\ UNCHANGED <<held, tokenResult, mail>>
    /\ \E p \in Procs : ResetRollback(p)
ConcChangeBegin ==
    /\ UNCHANGED <<held, tokenResult, mail>>
    /\ \E p \in Procs, userId \in UserIds, oldPassword \in Passwords,
       newPassword \in Passwords :
        ChangeBegin(p, userId, oldPassword, newPassword)
ConcChangeCheck ==
    /\ UNCHANGED <<held, tokenResult, mail>>
    /\ \E p \in Procs : ChangeCheck(p)
ConcChangeFind ==
    /\ UNCHANGED <<held, tokenResult, mail>>
    /\ \E p \in Procs : ChangeFind(p)
ConcChangeUpdate ==
    /\ UNCHANGED <<held, tokenResult, mail>>
    /\ \E p \in Procs : ChangeUpdate(p)
ConcChangeCommit ==
    /\ UNCHANGED <<held, tokenResult, mail>>
    /\ \E p \in Procs : ChangeCommit(p, "s1")
NextConc ==
    \/ ConcRegister \/ ConcForget \/ ConcBegin \/ ConcCheck \/ ConcFind
    \/ ConcUpdate \/ ConcDeleteCode \/ ConcCommit \/ ConcCommitFails
    \/ ConcRollback
    \/ ConcChangeBegin \/ ConcChangeCheck \/ ConcChangeFind
    \/ ConcChangeUpdate \/ ConcChangeCommit

SpecConc == Init /\ [][NextConc]_vars


(***************************************************************************)
(* Properties of the recovery flow                                         *)
(***************************************************************************)
\* the last verification mail for e is no older than the 5 minutes
Fresh(e) == now <= issue[e].at + 5 * 60 * 1000

\* C1: a code is single-use: once a resetPassword for an e-mail has
\* succeeded, a well-formed resetPassword for that e-mail with the same code
\* fails with CodeNotFound, until forgetPassword issues a new code
C1_SingleUse ==
    \A e \in Emails : issue[e].status = "consumed" =>
        \A pw \in Passwords :
            ResetOutcome(e, issue[e].code, pw) = "CodeNotFound"

\* the consumed code was presented again and refused
C1_Witness ==
    \E e \in Emails : issue[e].status = "consumed" /\ issue[e].again

\* C3: a code issued at t is live until t + 5 minutes: later than that the
\* correct code fails with CodeExpired, the entry is removed and the next
\* reset fails with CodeNotFound; up to the expiry it is not rejected as
\* expired
C3_Expiry ==
    \A e \in Emails, pw \in Passwords :
        /\ (issue[e].status = "issued" /\ ~Fresh(e)) =>
               ResetOutcome(e, issue[e].code, pw) = "CodeExpired"
        /\ (issue[e].status = "issued" /\ Fresh(e)) =>
               ResetOutcome(e, issue[e].code, pw) # "CodeExpired"
        /\ issue[e].status = "expired" =>
               /\ verifyCodeCache[CacheKey(e)] = NoEntry
               /\ ResetOutcome(e, issue[e].code, pw) = "CodeNotFound"

\* CodeExpired was returned and the code, presented again, was not found
C3_Witness ==
    \E e \in Emails : issue[e].status = "expired" /\ issue[e].again

\* a 6-character code other than the one issued last
WrongCodes(e) == {c \in CodeInputs : Len(c) = 6 /\ c # issue[e].code}

\* C4: a mismatching 6-character code for a pending, unexpired code fails
\* with CodeMismatch and leaves the cache and the accounts as they were, and
\* after mismatches the correct code still succeeds before the expiry
C4_Holds ==
    \A e \in Emails, pw \in Passwords :
        (issue[e].status = "issued" /\ Fresh(e)) =>
            /\ \A c \in WrongCodes(e) : ResetOutcome(e, c, pw) = "CodeMismatch"
            /\ (issue[e].wrong /\ FindByPk(issue[e].uid) # {}) =>
                   ResetOutcome(e, issue[e].code, pw) = "ok"
C4_Frame ==
    (last' # last /\ last'.op = "resetPassword" /\ last'.res = "CodeMismatch")
        => (verifyCodeCache' = verifyCodeCache /\ users' = users)
C4_MismatchKeepsCode == [](C4_Holds) /\ [][C4_Frame]_vars

\* the correct code succeeded after a mismatch was reported
C4_Witness ==
    \E e \in Emails : issue[e].status = "consumed" /\ issue[e].wrong

\* C5: the cache holds one code per e-mail, the one issued last: a second
\* forgetPassword overwrites the first code, resetPassword accepts no other
\* code and rejects the earlier one, when different, as a mismatch
C5_LatestCodeOnly ==
    \A e \in Emails, pw \in Passwords :
        /\ \A c \in CodeInputs :
               ResetOutcome(e, c, pw) = "ok" =>
                   issue[e].status = "issued" /\ c = issue[e].code
        /\ (issue[e].status = "issued" /\ Fresh(e)) =>
               /\ verifyCodeCache[CacheKey(e)].code = issue[e].code
               /\ FindByPk(issue[e].uid) # {} =>
                      ResetOutcome(e, issue[e].code, pw) = "ok"
               /\ issue[e].prev \notin {<<>>, issue[e].code} =>
                      ResetOutcome(e, issue[e].prev, pw) = "CodeMismatch"

\* a second forgetPassword replaced a pending code by a different one
C5_Witness ==
    \E e \in Emails :
        /\ issue[e].status = "issued"
        /\ issue[e].prev \notin {<<>>, issue[e].code}
        /\ last.op = "forgetPassword"

\* C7: after a successful resetPassword the account bound to the code logs
\* in with the new password, by user name and by e-mail, and the previous
\* password, when different, fails with the invalid-credentials failure
C7_ResetReplacesCredential ==
    (last.op = "resetPassword" /\ last.res = "ok") =>
        /\ FindByPk(last.id) # {}
        /\ \A u \in FindByPk(last.id) :
            \A identifier \in {u.user_name, u.user_email} :
              /\ LoginOutcomes(identifier, accepted[last.id])
                    = {[res |-> "ok", id |-> last.id]}
              /\ last.old # accepted[last.id] =>
                    LoginOutcomes(identifier, last.old)
                        = {[res |-> "InvalidCredentials", id |-> 0]}

\* a reset replaced a password by a different one
C7_Witness ==
    /\ last.op = "resetPassword" /\ last.res = "ok"
    /\ last.old # accepted[last.id]

(***************************************************************************)
(* Properties of the account operations                                    *)
(***************************************************************************)
\* C6: after any sequence of registerUser, resetPassword, changePassword and
\* updateUserInfo the stored password of every account is one application
\* of the hasher to the plaintext accepted last, never the plaintext, and
\* validatePassword is true of that plaintext
C6_PasswordIsHash ==
    \A u \in users :
        /\ u.user_password # Plain(accepted[u.user_id])
        /\ \E salt \in Salts :
               u.user_password = hashSync(Plain(accepted[u.user_id]), salt)
        /\ validatePassword(u, Plain(accepted[u.user_id]))

\* a password was replaced by changePassword
C6_Witness ==
    /\ last.op = "changePassword" /\ last.res = "ok"
    /\ \E u \in users : accepted[u.user_id] = Pw2

\* no account has this user name or e-mail
NoMatch(identifier) == LoginMatches(identifier) = {}
\* one account has it, and pw is not the plaintext accepted for it last
WrongPassword(identifier, pw) ==
    /\ LoginMatches(identifier) # {}
    /\ \A u \in LoginMatches(identifier) : accepted[u.user_id] # pw

\* C8: loginUser fails in the same way, with the same message, when no
\* account matches the identifier and when one matches but the password is
\* wrong
C8_SameFailure ==
    \A i1 \in LoginNames, i2 \in LoginNames, p1 \in PasswordInputs,
       p2 \in PasswordInputs :
        (NoMatch(i1) /\ WrongPassword(i2, p2)) =>
            /\ LoginOutcomes(i1, p1) = LoginOutcomes(i2, p2)
            /\ \A out \in LoginOutcomes(i1, p1) : out.res # "ok" /\ out.id = 0

\* both cases exist, and a login has just failed
C8_Witness ==
    /\ last.op = "loginUser" /\ last.res = "InvalidCredentials"
    /\ \E i1 \in LoginNames, i2 \in LoginNames, p2 \in PasswordInputs :
           NoMatch(i1) /\ WrongPassword(i2, p2)

\* C9: an account disabled through toggleUserStatus cannot log in: loginUser
\* with its user name and its password fails with AccountDisabled and
\* returns no user
C9_DisabledCannotLogin ==
    \A u \in users :
        u.user_status = EnumColumn(Num(0)) =>
            LoginOutcomes(u.user_name, accepted[u.user_id])
                = {[res |-> "AccountDisabled", id |-> 0]}

\* C10: registerUser with valid input fails with 'username exists' when an
\* account has the user name, with 'email exists' when none has the user
\* name and one has the e-mail, and creates no account and no role binding
C10_Conflicts ==
    \A name \in Names, pw \in Passwords, email \in Emails, phone \in Phones :
        /\ (\E u \in users : u.user_name = name) =>
               RegisterOutcomes(name, pw, email, phone) = {"UsernameExists"}
        /\ ((\A u \in users : u.user_name # name)
               /\ \E u \in users : u.user_email = email) =>
               RegisterOutcomes(name, pw, email, phone) = {"EmailExists"}
C10_Frame ==
    (last' # last /\ last'.op = "registerUser"
        /\ last'.res \in {"UsernameExists", "EmailExists"})
        => (users' = users /\ roleUsers' = roleUsers /\ nextId' = nextId)
C10_RegisterConflict == [](C10_Conflicts) /\ [][C10_Frame]_vars

(***************************************************************************)
(* Properties of interleaved resetPassword calls                           *)
(***************************************************************************)
\* C2: of two interleaved resetPassword calls for one e-mail that both
\* present the stored, unexpired code, at most one succeeds and changes
\* the password
C2_AtomicConsumption ==
    \A p \in Procs, q \in Procs :
        (/\ p # q
         /\ calls[p].res = "ok"
         /\ ~calls[p].reissued /\ ~calls[q].reissued
         /\ calls[q].pc = "done")
            => calls[q].res \in {"CodeNotFound", "CodeExpired",
                                 "CodeMismatch"}

(***************************************************************************)
(* Properties of changePassword                                            *)
(***************************************************************************)
\* one of the three cases of refusal holds for the call
ChangeRefused(userId, oldPassword, newPassword) ==
    \/ newPassword = oldPassword
    \/ Len(newPassword) < 6
    \/ \E user \in FindByPk(userId) :
           ~validatePassword(user, Plain(oldPassword))

C11_Cases ==
    \A userId \in UserIds, oldPassword \in Passwords,
       newPassword \in PasswordInputs :
        /\ ChangeRefused(userId, oldPassword, newPassword)
               => ChangeOutcome(userId, oldPassword, newPassword) # "ok"
        /\ (~ChangeRefused(userId, oldPassword, newPassword)
               /\ FindByPk(userId) # {})
               => ChangeOutcome(userId, oldPassword, newPassword) = "ok"
C11_Frame ==
    last'.op = "changePassword" =>
        IF last'.res # "ok"
        THEN users' = users /\ accepted' = accepted
        ELSE \E u \in users, salt \in Salts :
                 /\ accepted'[u.user_id] # accepted[u.user_id]
                 /\ users' = (users \ {u}) \cup
                        {[u EXCEPT !.user_password =
                             hashSync(Plain(accepted'[u.user_id]), salt)]}

\* C11: changePassword fails and leaves the stored password unchanged when
\* newPassword equals oldPassword, when newPassword is shorter than 6
\* characters and when oldPassword does not verify against the stored hash;
\* when none of them holds and the account exists, the stored password
\* becomes the hash of newPassword
C11_ChangePassword == [](C11_Cases) /\ [][C11_Frame]_vars

\* each of the three refusals has been returned for an existing account
C11_Witness ==
    /\ last.op = "changePassword" /\ last.res = "SamePassword"
    /\ \E u \in users : accepted[u.user_id] = Pw2

(***************************************************************************)
(* All-or-nothing                                                          *)
(***************************************************************************)
MutatingOps ==
    {"registerUser", "resetPassword", "changePassword", "updateUserInfo",
     "toggleUserStatus", "deleteUser"}

C13_Serialized ==
    \A p \in Procs, q \in Procs :
        (p # q /\ calls[p].res = "ok" /\ calls[q].res = "ok"
            /\ calls[p].userId = calls[q].userId)
            => ~calls[q].stale

(***************************************************************************)
(* Properties of forgetPassword and of the mails                           *)
(***************************************************************************)
\* the entries the step has written into the cache
CacheWritten == {k \in CacheKeys : verifyCodeCache'[k] # verifyCodeCache[k]}

\* C14: forgetPassword returns the same generic success for every
\* well-formed e-mail, whether or not an account has it (the only other
\* result is the refusal of a malformed e-mail), and stores a code only
\* for the e-mail of an existing account
C14_NonEnumerating ==
    [][last'.op = "forgetPassword" =>
          /\ last'.res \in {"ok", "Validation"}
          /\ last'.res = "Validation" => CacheWritten = {}
          /\ \A k \in CacheWritten :
                 \E u \in users :
                     /\ k = CacheKey(u.user_email)
                     /\ verifyCodeCache'[k].userId = u.user_id]_vars

C15_Frame ==
    last'.mail = "failed" =>
        \/ /\ last'.op = "forgetPassword"
           /\ last'.res # "ok"
        \/ /\ last'.op = "registerUser"
           /\ last'.res = "ok"
           /\ \E u \in users' \ users :
                  /\ users' = users \cup {u}
                  /\ \E b \in roleUsers' \ roleUsers : b.user_id = u.user_id
        \/ /\ last'.op = "resetPassword"
           /\ last'.res = "ok"
           /\ \E u \in users' :
                  /\ u.user_id = last'.id
                  /\ validatePassword(u, Plain(accepted'[u.user_id]))
                  /\ accepted'[u.user_id] # accepted[u.user_id]
                         => u \notin users

\* C15: when the mail sender reports failure, forgetPassword fails, whereas
\* registerUser and resetPassword still succeed and keep what they wrote
C15_MailFailure == [][C15_Frame]_vars

\* the three calls have met a failing mail sender
C15_Witness ==
    /\ last.op = "resetPassword" /\ last.mail = "failed"
    /\ last.old # accepted[last.id]

(***************************************************************************)
(* Claims on the tokens, under SpecTokens                                  *)
(***************************************************************************)
\* the standard fields of a token issued at clock t with the configuration
StandardFields(t) ==
    [iat |-> Seconds(t), exp |-> Seconds(t) + ExpiresInSeconds,
     iss |-> JwtIssuer, aud |-> JwtAudience]

\* the token held came from generateToken(c) with the configured options
\* and the clock has not reached its expiry
HeldIssued ==
    /\ held.origin = "service"
    /\ held.options = NoOptions
    /\ Seconds(now) < Seconds(held.issuedAt) + ExpiresInSeconds

\* verifyToken gives c and the standard fields for the token held, with
\* and without the 'Bearer ' prefix
RoundTrip ==
    LET expected == Valid(Merge(held.claims, StandardFields(held.issuedAt)))
    IN  /\ verifyToken(held.token, now) = expected
        /\ verifyToken(WithBearer(PureToken(held.token)), now) = expected

\* C16 as stated: for every non-empty claims map c, generateToken(c) gives
\* a token, and verifyToken on it before its expiry is valid with c and the
\* standard fields (issued-at the clock of issue, expiry 24h later, the
\* configured issuer and audience), with or without the 'Bearer ' prefix
C16_AnyClaims ==
    /\ tokenResult.op = "generateToken" /\ tokenResult.arg = "object"
           /\ tokenResult.given # EmptyMap => tokenResult.ok
    /\ HeldIssued => RoundTrip

\* C16 amended: the same for every non-empty claims map c that holds none
\* of the registered claim names iat, exp, nbf, iss, aud
RegisteredClaimNames == {"iat", "exp", "nbf", "iss", "aud"}
C16_RoundTrip ==
    HeldIssued /\ DOMAIN held.claims \cap RegisteredClaimNames = {}
        => RoundTrip

\* a token of two claims, carried with the prefix, verified after the clock
\* moved
C16_Witness ==
    /\ HeldIssued
    /\ held.claims = [user_id |-> 2, role |-> "admin"]
    /\ Len(held.token.prefix) = 1
    /\ now > held.issuedAt
    /\ tokenResult.op = "verifyToken" /\ tokenResult.ok

\* the token held was signed by the service and not altered, and the clock
\* has reached its expiry
SignedExpired ==
    /\ held.origin \in {"service", "refresh"}
    /\ Seconds(now) >= PureToken(held.token).jwt.payload["exp"]

\* the not-before time of the token held, if it states one, is reached
NotBeforeReached ==
    LET payload == PureToken(held.token).jwt.payload
    IN  Has(payload, "nbf") => payload["nbf"] <= Seconds(now)

\* verifyToken fails with the expired type for the token held
FailsExpired ==
    LET result == verifyToken(held.token, now)
    IN  ~result.valid /\ result.type = "expired"

\* this refreshToken step succeeds, and the new token verifies and carries
\* the old claims overlaid with newPayload, issued now for the configured
\* lifetime
RefreshRenews ==
    LET oldPayload == PureToken(held.token).jwt.payload
        kept == Without(Merge(oldPayload, tokenResult'.given),
                        RegisteredNames)
    IN  /\ tokenResult'.ok
        /\ held'.token.jwt.payload = Merge(kept, StandardFields(now))
        /\ held'.token.jwt.payload["exp"] > oldPayload["exp"]
        /\ verifyToken(held'.token, now').valid

\* C17 as stated: a correctly signed token whose expiry is in the past
\* fails verifyToken with the expired type, and refreshToken on it within 60
\* seconds of the expiry succeeds with a new token of the old claims and
\* newClaims, issued now and expiring now + lifetime
C17_AnySignedToken ==
    /\ [](SignedExpired => FailsExpired)
    /\ [][TokRefresh /\ SignedExpired /\ ~PastLeeway(held.token, now)
              => RefreshRenews]_vars

\* C17 amended: the same for a correctly signed token whose not-before
\* time, if it states one, is reached
C17_Cases == SignedExpired /\ NotBeforeReached => FailsExpired
C17_Frame ==
    TokRefresh /\ SignedExpired /\ NotBeforeReached
        /\ ~PastLeeway(held.token, now) => RefreshRenews
C17_ExpiredRefresh == [](C17_Cases) /\ [][C17_Frame]_vars

\* an expired token was refreshed, with new claims, exactly REFRESH_LEEWAY
\* after its expiry
C17_Witness ==
    /\ tokenResult.op = "refreshToken" /\ tokenResult.ok
    /\ tokenResult.before = "expired" /\ ~tokenResult.late
    /\ tokenResult.given = [role |-> "guest"]
    /\ held.origin = "refresh"
    /\ now = ExpiresInSeconds * 1000 + REFRESH_LEEWAY
    /\ held.token.jwt.payload["iat"] = Seconds(now)

\* C18: refreshToken on a token whose expiry is more than 60 seconds in the
\* past fails and issues no new token, at every later time
C18_GraceBounded ==
    [][TokRefresh /\ PastLeeway(held.token, now)
           => ~tokenResult'.ok /\ held' = held]_vars

\* the token held was signed with another secret, or its payload was
\* altered after signing
Forged == held.origin \in {"otherSecret", "tampered"}

\* verifyToken fails with a type other than expired for the token held
FailsOtherwise ==
    LET result == verifyToken(held.token, now)
    IN  ~result.valid /\ result.type # "expired"

C19_Cases ==
    Forged => LET result == verifyToken(held.token, now)
              IN  ~result.valid /\ result.type = "invalid_signature"
C19_Frame ==
    TokRefresh /\ (Forged \/ FailsOtherwise)
        => /\ ~tokenResult'.ok
           /\ tokenResult'.type = verifyToken(held.token, now).type
           /\ held' = held

\* C19: a token signed with a different secret, or altered after signing,
\* fails verifyToken with the invalid_signature type at every time, and
\* refreshToken issues no new token for it nor for any token failing with
\* a type other than expired
C19_ForgedNeverRefreshed == [](C19_Cases) /\ [][C19_Frame]_vars

\* refreshToken refused a token signed with another secret, called after
\* the expiry stated in the token and inside the grace window
C19_Witness ==
    /\ held.origin = "otherSecret"
    /\ Seconds(now) >= held.token.jwt.payload["exp"]
    /\ ~PastLeeway(held.token, now)
    /\ tokenResult.op = "refreshToken" /\ ~tokenResult.ok
    /\ tokenResult.before = "invalid_signature"
    /\ tokenResult.type = "invalid_signature"

\* C20: verifyToken rejects every token made to fail the signature, issuer,
\* audience or expiry check or made malformed, and two tokens made to fail
\* different ones of these are reported with different types: the token
\* held, against the token of the last verifyToken call
C20_DistinctKinds ==
    LET result == verifyToken(held.token, now)
        cause == Cause(held, now)
    IN  /\ cause \notin {"none", "several"} => ~result.valid
        /\ /\ tokenResult.op = "verifyToken"
           /\ tokenResult.cause \notin {"none", "several"}
           /\ cause \notin {"none", "several"}
           /\ cause # tokenResult.cause
           => result.type # tokenResult.type

(***************************************************************************)
(* Claims on the arguments of generateToken, under SpecTokens              *)
(***************************************************************************)
\* C21: generateToken fails exactly when its payload argument is not a
\* non-empty map: it fails for null, a non-object, an array and the empty
\* map, and returns a token for every non-empty map
C21_FailsExactly ==
    tokenResult.op = "generateToken"
        => (tokenResult.ok <=> /\ tokenResult.arg = "object"
                               /\ tokenResult.given # EmptyMap)

\* C21, the half on the empty map alone: generateToken({}) fails
C21_EmptyMapRefused ==
    tokenResult.op = "generateToken" /\ tokenResult.arg = "object"
        /\ tokenResult.given = EmptyMap => ~tokenResult.ok

(***************************************************************************)
(* Claims on deleteUser, under SpecAccounts                                *)
(***************************************************************************)
\* C22: deleteUser is a soft delete: when deleteUser(id) succeeds, every
\* account record of the store is still in the store after it
C22_SoftDelete ==
    [][last'.op = "deleteUser" /\ last'.res = "ok"
           => {u.user_id : u \in users} \subseteq {u.user_id : u \in users'}]_vars

(***************************************************************************)
(* Claims on the codes issued, under Spec                                  *)
(***************************************************************************)
Digits == {"0", "1", "2", "3", "4", "5", "6", "7", "8", "9"}
SixDigits(code) == Len(code) = 6 /\ \A i \in 1..6 : code[i] \in Digits

\* values of Math.random(), in millionths, for which the code is computed
\* outside the runs: the ends, their neighbours and the middle
RandomSamples == {0, 1, 2, 499999, 500000, 999998, 999999}

\* the codes stored in the cache
StoredCodes ==
    {verifyCodeCache[k].code : k \in {c \in CacheKeys : verifyCodeCache[c] # NoEntry}}

\* C23 as stated: every generated code has 6 digits, and the codes with
\* leading zeros, down to 000000, can be generated as well
C23_ZeroPadded ==
    /\ \A code \in StoredCodes : SixDigits(code)
    /\ \E r \in RandomSamples : generateVerifyCode(r) = Code000000

\* C23 amended: the codes forgetPassword can issue are exactly the decimal
\* strings 100000 to 999999: every generated code has 6 digits, the first
\* of them not 0, and the least and the greatest are 100000 and 999999
C23_SixDigitCodes ==
    /\ \A code \in StoredCodes \cup {generateVerifyCode(r) : r \in RandomSamples} :
           SixDigits(code) /\ code[1] # "0"
    /\ generateVerifyCode(0) = <<"1", "0", "0", "0", "0", "0">>
    /\ generateVerifyCode(999999) = <<"9", "9", "9", "9", "9", "9">>
    /\ \A r \in RandomSamples \ {999999} :
           generateVerifyCode(r + 1) \in
               {generateVerifyCode(r),
                NumToString(100000 + (r * 9) \div 10 + 1)}

\* the greatest code is stored
C23_Witness ==
    <<"9", "9", "9", "9", "9", "9">> \in StoredCodes

(***************************************************************************)
(* Claims on the status endpoint, under SpecAccounts                       *)
(***************************************************************************)
\* the stored status of the account userId is n (0 disabled, 1 enabled)
StatusIs(rows, userId, n) ==
    \E u \in rows : u.user_id = userId /\ u.user_status.v = n

\* C24: a request to the status endpoint carrying status 0 for an existing
\* enabled account reaches the service and leaves the account disabled, and
\* one carrying status 1 for a disabled account leaves it enabled
C24_BothStatusValues ==
    [][\A userId \in UserIds :
           /\ PutStatus(userId, Num(0)) /\ StatusIs(users, userId, 1)
                  => last'.res = "ok" /\ StatusIs(users', userId, 0)
           /\ PutStatus(userId, Num(1)) /\ StatusIs(users, userId, 0)
                  => last'.res = "ok" /\ StatusIs(users', userId, 1)]_vars

\* C24, the half on status 1 alone
C24_EnableAccepted ==
    [][\A userId \in UserIds :
           PutStatus(userId, Num(1)) /\ StatusIs(users, userId, 0)
               => last'.res = "ok" /\ StatusIs(users', userId, 1)]_vars

(***************************************************************************)
(* Claims on the seeding script, under SpecSeed                            *)
(***************************************************************************)
\* C25: when the script has created the admin account with password
\* admin123, the login that follows with admin / admin123 succeeds
C25_SeededAdminLogsIn ==
    [][TestLogin /\ last.op = "createAdminUser" /\ last.res = "created"
           => last'.res = "ok"]_vars

(***************************************************************************)
(* C26: sendMail with real sending and a transport that fails on every     *)
(* attempt                                                                 *)
(***************************************************************************)
AllFailed(tried) == \A i \in 1..Len(tried) : tried[i] # "ok"

\* what holds of a call with real sending in every state: no more than
\* maxRetry retries after the first attempt, no attempt after a success,
\* and when every attempt failed the call is done with send_failed and
\* retryCount = maxRetry, not with an exception
MailBounded ==
    (mail.realSend /\ mail.valid /\ mail.pc # "idle") =>
        LET maxRetry == ValidMaxRetry(mail.maxRetry)
        IN  /\ Len(mail.tried) <= maxRetry + 1
            /\ mail.retry <= maxRetry
            /\ mail.retry <= Len(mail.tried)
            /\ Len(mail.tried) > 1 => AllFailed(SubSeq(mail.tried, 1, Len(mail.tried) - 1))
            /\ mail.pc = "done" =>
                  /\ mail.result \in {"sent", "send_failed"}
                  /\ mail.result = "send_failed" <=> AllFailed(mail.tried)
                  /\ mail.result = "send_failed" =>
                        /\ Len(mail.tried) = maxRetry + 1
                        /\ mail.retryCount = maxRetry
                  /\ mail.result = "sent" =>
                        mail.retryCount = Len(mail.tried) - 1

C27_ValidInputRegisters ==
    [][\A name \in Names, email \in Emails, mailOk \in BOOLEAN :
          (/\ RegisterValid(name, Pw1, email)
           /\ RegisterExisting(name, email) = {}
           /\ registerUser(name, Pw1, email, NoPhone, "s1", mailOk))
          => last'.res = "ok"]_vars

(***************************************************************************)
(* C28: resetPassword and a code issued while it is in flight              *)
(***************************************************************************)
\* C28: resetPassword removes only the cache entry it matched: when
\* forgetPassword has issued another code for the e-mail after the call
\* matched the previous one, the step of the call that deletes from the
\* cache leaves the newly issued code stored
C28_RemovesOnlyMatchedEntry ==
    [][\A p \in Procs :
          (/\ calls[p].op = "resetPassword"
           /\ calls[p].reissued
           /\ verifyCodeCache[CacheKey(ConcEmail)] # NoEntry
           /\ verifyCodeCache[CacheKey(ConcEmail)].code # calls[p].code
           /\ ResetDeleteCode(p))
          => verifyCodeCache'[CacheKey(ConcEmail)]
                 = verifyCodeCache[CacheKey(ConcEmail)]]_vars

(***************************************************************************)
(* C29: resetPassword consumes the code exactly when it commits            *)
(***************************************************************************)
\* C29: when a resetPassword call that matched the stored code completes,
\* with no other call on the e-mail, the cache entry has been deleted
\* exactly when the new password has been stored; when the transaction
\* failed to commit, the password is unchanged and the code is still
\* stored
C29_ConsumedIffCommitted ==
    [][\A p \in Procs :
          (/\ calls[p].op = "resetPassword"
           /\ calls[p].userId # 0
           /\ calls[p].pc # "done" /\ calls'[p].pc = "done"
           /\ ~calls'[p].reissued
           /\ \A q \in Procs \ {p} : calls[q].pc = "idle")
          => LET cacheData == verifyCodeCache'[CacheKey(ConcEmail)]
             IN  /\ calls'[p].res = "ok" <=> cacheData = NoEntry
                 /\ calls'[p].res = "ok" =>
                        \E u \in users' :
                            /\ u.user_id = calls[p].userId
                            /\ validatePassword(u, Plain(calls[p].pw))
                 /\ calls'[p].res # "ok" =>
                        /\ users' = users
                        /\ cacheData.code = calls[p].code
                        /\ ~IsExpired(cacheData, now')]_vars

(***************************************************************************)
(* C30: a failed forgetPassword and the code cache                         *)
(***************************************************************************)
\* C30: a forgetPassword call that fails - the verification mail could not
\* be sent - leaves the code cache as it was: it stores no code of its own
\* and does not overwrite a code issued before
C30_FailedForgetKeepsCache ==
    [][(last'.op = "forgetPassword" /\ last'.res # "ok")
          => verifyCodeCache' = verifyCodeCache]_vars

====
